---- MODULE Spec2Model ----
(***************************************************************************)
(* Commit-reveal Rock-Paper-Scissors (src/src/main.rs).                     *)
(*                                                                         *)
(* Five specifications share the variables below:                          *)
(*   Spec       the session run by main(): player count, commit phase,     *)
(*              reveal phase, one update_scores call, the score report;    *)
(*   SpecScore  update_scores applied round after round to one score       *)
(*              table, on player lists drawn from bounded sets;            *)
(*   SpecHash   commit_faster followed by reveal_faster, as in             *)
(*              tests::test_reveal_blake3_256, on bounded string inputs.    *)
(*   SpecBoth   the union of Spec and SpecScore;                            *)
(*   SpecLive   the session with the prompts eventually answered.           *)
(*                                                                         *)
(* A Rust String is a sequence of one-character strings; a Choice is one   *)
(* of the strings "Rock", "Paper", "Scissors", "Empty" (the enum's          *)
(* variants).  BLAKE3 is taken to be collision-free: a digest is           *)
(* identified with the byte stream the hasher was fed.  Scores are u32 in  *)
(* the source; every score the bounded model reaches is far below 2^32.    *)
(***************************************************************************)
EXTENDS Integers, Sequences, FiniteSets, TLC

VARIABLES
    pc,               \* position in main() or in a harness
    players_count,    \* main: let players_count
    players_details,  \* main: Vec<(String, Blake3Hash, Choice)>
    players_scores,   \* main: HashMap<String, u32>
    i,                \* main: index of the reveal loop (1-based)
    choice,           \* main: let choice (last string read in the reveal loop)
    salt,             \* main: let salt
    reveal_ok,        \* value returned by the last reveal_faster call
    accepted,         \* history: player index -> <<choice, salt>> that passed verification
    score_calls,      \* history: number of update_scores calls so far
    scores_before,    \* history: players_scores at entry of the update_scores call just made
    output,           \* lines "- {name}: {score}" printed so far
    test_input,       \* test harness: the <<choice, salt>> given to commit_faster
    hash              \* test harness: let hash

vars == <<pc, players_count, players_details, players_scores, i, choice, salt,
          reveal_ok, accepted, score_calls, scores_before, output, test_input, hash>>

-----------------------------------------------------------------------------
(* Bounds of the model *)

MaxPlayers == 3

MaxRounds == 2

\* No further round once a score has reached MaxScore.
MaxScore == 3

\* Players of the sessions checked for termination (SpecLive).
MaxLivePlayers == 2

-----------------------------------------------------------------------------
(* Strings read from the console *)

StrRock == <<"R", "o", "c", "k">>

StrPaper == <<"P", "a", "p", "e", "r">>

StrScissors == <<"S", "c", "i", "s", "s", "o", "r", "s">>

\* "rock": verifies against its own commitment but names no move.
StrLowerRock == <<"r", "o", "c", "k">>

\* "Roc": with salt "ks" it yields the byte stream of ("Rock", "s").
StrRoc == <<"R", "o", "c">>

ChoiceStrings == {StrRock, StrPaper, StrScissors, StrLowerRock, StrRoc}

SaltStrings == {<<"s">>, <<"k", "s">>}

\* Names typed in the session; two players may type the same name.
Names == {"alice", "bob"}

\* Names of the player lists handed to update_scores in SpecScore, in order of
\* first use.
ScoreNames == <<"alice", "bob", "carol", "dave", "erin", "frank">>

NoString == <<"-">>

-----------------------------------------------------------------------------
(* Choice: the enum and its derived order *)

Choice == {"Rock", "Paper", "Scissors", "Empty"}

\* #[derive(PartialOrd)]: variants compare by declaration order.
Discriminant(c) ==
    CASE c = "Rock" -> 0
      [] c = "Paper" -> 1
      [] c = "Scissors" -> 2
      [] c = "Empty" -> 3

ChoiceLt(a, b) == Discriminant(a) < Discriminant(b)

ChoiceGt(a, b) == Discriminant(a) > Discriminant(b)

-----------------------------------------------------------------------------
(* commit_faster / reveal_faster *)

\* str::as_bytes on the ASCII characters used here.
Byte(ch) ==
    CASE ch = "R" -> 82
      [] ch = "P" -> 80
      [] ch = "S" -> 83
      [] ch = "a" -> 97
      [] ch = "c" -> 99
      [] ch = "e" -> 101
      [] ch = "i" -> 105
      [] ch = "k" -> 107
      [] ch = "o" -> 111
      [] ch = "p" -> 112
      [] ch = "r" -> 114
      [] ch = "s" -> 115
      [] ch = "z" -> 122

as_bytes(s) == [k \in 1..Len(s) |-> Byte(s[k])]

\* blake3::Hasher::new(): nothing absorbed yet.
HasherNew == <<>>

\* Hasher::update: absorbs the bytes after those already absorbed.
HasherUpdate(hasher, bytes) == hasher \o bytes

\* Hasher::finalize: the digest of the absorbed stream (collision-free).
HasherFinalize(hasher) == [blake3 |-> hasher]

commit_faster(ch, sl) ==
    LET h0 == HasherNew
        h1 == HasherUpdate(h0, as_bytes(ch))
        h2 == HasherUpdate(h1, as_bytes(sl))
    IN  HasherFinalize(h2)

\* Mutant: the computed hash absorbs the choice twice and never the salt.
reveal_faster_ChoiceTwice(commit_hash, ch, sl) ==
    LET computed_hash == commit_faster(ch, ch)
    IN  computed_hash = commit_hash

reveal_faster(commit_hash, ch, sl) ==
    LET computed_hash == commit_faster(ch, sl)
    IN  computed_hash = commit_hash

\* A digest that no (choice, salt) of the bounded input sets opens.
UnopenedHash == HasherFinalize(as_bytes(<<"z">>))

\* Digests a player may type in the commit phase (collect_input::<Blake3Hash>
\* accepts any well-formed digest).
CommitInputs ==
    {commit_faster(c, <<"s">>) :
        c \in {StrRock, StrPaper, StrScissors, StrLowerRock}} \cup {UnopenedHash}

-----------------------------------------------------------------------------
(* update_scores *)

\* The String -> Choice conversion of the reveal loop: Empty unless the string
\* is exactly "Rock", "Paper" or "Scissors".
ParseChoice(ch) ==
    IF ch = StrRock THEN "Rock"
    ELSE IF ch = StrPaper THEN "Paper"
    ELSE IF ch = StrScissors THEN "Scissors"
    ELSE "Empty"

\* Mutant: the entry is overwritten with 1 instead of incremented.
EntryIncr_Overwrite(scores, name) ==
    [n \in (DOMAIN scores) \cup {name} |-> IF n = name THEN 1 ELSE scores[n]]

\* *players_scores.entry(name).or_insert(0) += 1
EntryIncr(scores, name) ==
    LET cur == IF name \in DOMAIN scores THEN scores[name] ELSE 0
    IN  [n \in (DOMAIN scores) \cup {name} |->
            IF n = name THEN cur + 1 ELSE scores[n]]

\* Mutant: the insert is forgotten.
Insert0_Forgotten(scores, name) == scores

\* players_scores.insert(name, 0)
Insert0(scores, name) ==
    [n \in (DOMAIN scores) \cup {name} |-> IF n = name THEN 0 ELSE scores[n]]

\* Mutant: the Rock-before-Scissors case is missing, the greater variant wins.
ScorePair_NoRockCase(details, scores, a, b) ==
    IF ChoiceLt(details[a].choice, details[b].choice)
    THEN EntryIncr(scores, details[b].name)
    ELSE IF ChoiceGt(details[a].choice, details[b].choice)
         THEN EntryIncr(scores, details[a].name)
         ELSE scores

\* Mutant: the second comparison is dropped, so a tie gives the first player a point.
ScorePair_TieAwards(details, scores, a, b) ==
    IF ChoiceLt(details[a].choice, details[b].choice)
    THEN IF details[a].choice = "Rock" /\ details[b].choice = "Scissors"
         THEN EntryIncr(scores, details[a].name)
         ELSE EntryIncr(scores, details[b].name)
    ELSE EntryIncr(scores, details[a].name)

\* The body of the inner loop for the pair (a, b), a < b.
ScorePair(details, scores, a, b) ==
    IF ChoiceLt(details[a].choice, details[b].choice)
    THEN IF details[a].choice = "Rock" /\ details[b].choice = "Scissors"
         THEN EntryIncr(scores, details[a].name)
         ELSE EntryIncr(scores, details[b].name)
    ELSE IF ChoiceGt(details[a].choice, details[b].choice)
         THEN EntryIncr(scores, details[a].name)
         ELSE scores

\* for i in 0..len { for j in i + 1..len { ... } }, here with indices from 1.
RECURSIVE ScoreLoop(_, _, _, _)
ScoreLoop(details, scores, a, b) ==
    IF a > Len(details) THEN scores
    ELSE IF b > Len(details) THEN ScoreLoop(details, scores, a + 1, a + 2)
    ELSE ScoreLoop(details, ScorePair(details, scores, a, b), a, b + 1)

\* Mutant: the inner loop starts at the first player instead of at i + 1, so
\* every pair is compared in both orders (and every player with itself).
RECURSIVE ScoreLoop_AllOrdered(_, _, _, _)
ScoreLoop_AllOrdered(details, scores, a, b) ==
    IF a > Len(details) THEN scores
    ELSE IF b > Len(details) THEN ScoreLoop_AllOrdered(details, scores, a + 1, 1)
    ELSE ScoreLoop_AllOrdered(details, ScorePair(details, scores, a, b), a, b + 1)

update_scores_AllOrdered(details, scores) ==
    ScoreLoop_AllOrdered(details, scores, 1, 1)

update_scores(details, scores) == ScoreLoop(details, scores, 1, 2)

Entry(name, h, c) == [name |-> name, hash |-> h, choice |-> c]

EmptyMap == [n \in {} |-> 0]

NameSet(details) == {details[k].name : k \in 1..Len(details)}

-----------------------------------------------------------------------------
(* Spec: the session run by main() *)

Init ==
    /\ pc = "count"
    /\ players_count = 0
    /\ players_details = <<>>
    /\ players_scores = EmptyMap
    /\ i = 1
    /\ choice = NoString
    /\ salt = NoString
    /\ reveal_ok = FALSE
    /\ accepted = EmptyMap
    /\ score_calls = 0
    /\ scores_before = EmptyMap
    /\ output = {}
    /\ test_input = <<NoString, NoString>>
    /\ hash = UnopenedHash

\* collect_input: a line that does not parse as the wanted type (a count that is
\* no u32, a digest that is no 64-digit hex string) prints the prompt again.
\* Strings always parse, so only the count and the digest prompts can repeat.
MalformedInput ==
    /\ pc \in {"count", "commit"}
    /\ UNCHANGED vars

\* collect_input: read_line(..).expect("Failed to read input") panics when the
\* read fails (an I/O error, a line that is not valid UTF-8), at any prompt.
ReadError ==
    /\ pc \in {"count", "commit", "reveal"}
    /\ pc' = "panicked"
    /\ UNCHANGED <<players_count, players_details, players_scores, i, choice, salt,
                   reveal_ok, accepted, score_calls, scores_before, output,
                   test_input, hash>>

\* Mutant: the count check is off by one (players_count < 1).
CollectCount_AcceptsOne ==
    /\ pc = "count"
    /\ \E n \in 0..MaxPlayers :
         /\ players_count' = n
         /\ pc' = IF n < 1 THEN "count" ELSE "commit"
    /\ UNCHANGED <<players_details, players_scores, i, choice, salt, reveal_ok,
                   accepted, score_calls, scores_before, output, test_input, hash>>

\* let players_count = collect_input::<u32>(..); if players_count < 2 { continue; }
\* with the counts typed drawn from 0..m.
CollectCountUpTo(m) ==
    /\ pc = "count"
    /\ \E n \in 0..m :
         /\ players_count' = n
         /\ pc' = IF n < 2 THEN "count" ELSE "commit"
    /\ UNCHANGED <<players_details, players_scores, i, choice, salt, reveal_ok,
                   accepted, score_calls, scores_before, output, test_input, hash>>

CollectCount == CollectCountUpTo(MaxPlayers)

\* One iteration of `for _ in 0..players_count`: name, digest, push, insert.
CollectCommit ==
    /\ pc = "commit"
    /\ Len(players_details) < players_count
    /\ \E player_name \in Names, player_commit_hash \in CommitInputs :
         /\ players_details' =
                Append(players_details, Entry(player_name, player_commit_hash, "Empty"))
         /\ players_scores' = Insert0(players_scores, player_name)
    /\ pc' = IF Len(players_details) + 1 = players_count THEN "reveal" ELSE "commit"
    /\ UNCHANGED <<players_count, i, choice, salt, reveal_ok, accepted,
                   score_calls, scores_before, output, test_input, hash>>

\* Mutant: the choice is stored before the reveal is verified.
RevealAttempt_WriteBeforeVerify ==
    /\ pc = "reveal"
    /\ i <= Len(players_details)
    /\ \E ch \in ChoiceStrings, sl \in SaltStrings :
         /\ choice' = ch
         /\ salt' = sl
         /\ reveal_ok' = reveal_faster(players_details[i].hash, ch, sl)
         /\ players_details' = [players_details EXCEPT ![i].choice = ParseChoice(ch)]
         /\ IF ~reveal_faster(players_details[i].hash, ch, sl)
            THEN UNCHANGED <<i, pc, accepted>>
            ELSE /\ accepted' = [k \in (DOMAIN accepted) \cup {i} |->
                                    IF k = i THEN <<ch, sl>> ELSE accepted[k]]
                 /\ i' = i + 1
                 /\ pc' = IF i + 1 > Len(players_details) THEN "score" ELSE "reveal"
    /\ UNCHANGED <<players_count, players_scores, score_calls, scores_before,
                   output, test_input, hash>>

\* Mutant: a mismatch leaves the loop (break) instead of asking again (continue).
RevealAttempt_BreakOnMismatch ==
    /\ pc = "reveal"
    /\ i <= Len(players_details)
    /\ \E ch \in ChoiceStrings, sl \in SaltStrings :
         /\ choice' = ch
         /\ salt' = sl
         /\ reveal_ok' = reveal_faster(players_details[i].hash, ch, sl)
         /\ IF ~reveal_faster(players_details[i].hash, ch, sl)
            THEN UNCHANGED <<players_details, accepted>>
            ELSE /\ players_details' =
                        [players_details EXCEPT ![i].choice = ParseChoice(ch)]
                 /\ accepted' = [k \in (DOMAIN accepted) \cup {i} |->
                                    IF k = i THEN <<ch, sl>> ELSE accepted[k]]
         /\ i' = i + 1
         /\ pc' = IF i + 1 > Len(players_details) THEN "score" ELSE "reveal"
    /\ UNCHANGED <<players_count, players_scores, score_calls, scores_before,
                   output, test_input, hash>>

\* Mutant: a mismatch ends the session instead of asking again.
RevealAttempt_MismatchEnds ==
    /\ pc = "reveal"
    /\ i <= Len(players_details)
    /\ \E ch \in ChoiceStrings, sl \in SaltStrings :
         /\ choice' = ch
         /\ salt' = sl
         /\ reveal_ok' = reveal_faster(players_details[i].hash, ch, sl)
         /\ IF ~reveal_faster(players_details[i].hash, ch, sl)
            THEN /\ pc' = "done"
                 /\ UNCHANGED <<players_details, i, accepted>>
            ELSE /\ players_details' =
                        [players_details EXCEPT ![i].choice = ParseChoice(ch)]
                 /\ accepted' = [k \in (DOMAIN accepted) \cup {i} |->
                                    IF k = i THEN <<ch, sl>> ELSE accepted[k]]
                 /\ i' = i + 1
                 /\ pc' = IF i + 1 > Len(players_details) THEN "score" ELSE "reveal"
    /\ UNCHANGED <<players_count, players_scores, score_calls, scores_before,
                   output, test_input, hash>>

\* One iteration of the inner `loop` of the reveal phase for player i.
RevealAttempt ==
    /\ pc = "reveal"
    /\ i <= Len(players_details)
    /\ \E ch \in ChoiceStrings, sl \in SaltStrings :
         /\ choice' = ch
         /\ salt' = sl
         /\ reveal_ok' = reveal_faster(players_details[i].hash, ch, sl)
         /\ IF ~reveal_faster(players_details[i].hash, ch, sl)
            THEN UNCHANGED <<players_details, i, pc, accepted>>
            ELSE /\ players_details' =
                        [players_details EXCEPT ![i].choice = ParseChoice(ch)]
                 /\ accepted' = [k \in (DOMAIN accepted) \cup {i} |->
                                    IF k = i THEN <<ch, sl>> ELSE accepted[k]]
                 /\ i' = i + 1
                 /\ pc' = IF i + 1 > Len(players_details) THEN "score" ELSE "reveal"
    /\ UNCHANGED <<players_count, players_scores, score_calls, scores_before,
                   output, test_input, hash>>

\* update_scores(&players_details, &mut players_scores)
Score ==
    /\ pc = "score"
    /\ scores_before' = players_scores
    /\ players_scores' = update_scores(players_details, players_scores)
    /\ score_calls' = score_calls + 1
    /\ pc' = "print"
    /\ UNCHANGED <<players_count, players_details, i, choice, salt, reveal_ok,
                   accepted, output, test_input, hash>>

\* for name in players_scores.keys() { println!("- {name}: {}", ..) }
PrintScores ==
    /\ pc = "print"
    /\ output' = {<<n, players_scores[n]>> : n \in DOMAIN players_scores}
    /\ pc' = "done"
    /\ UNCHANGED <<players_count, players_details, players_scores, i, choice, salt,
                   reveal_ok, accepted, score_calls, scores_before, test_input, hash>>

Next ==
    \/ MalformedInput
    \/ ReadError
    \/ CollectCount
    \/ CollectCommit
    \/ RevealAttempt
    \/ Score
    \/ PrintScores

Spec == Init /\ [][Next]_vars

\* The session of up to MaxLivePlayers players.
CollectCountLive == CollectCountUpTo(MaxLivePlayers)

NextLive ==
    \/ MalformedInput
    \/ ReadError
    \/ CollectCountLive
    \/ CollectCommit
    \/ RevealAttempt
    \/ Score
    \/ PrintScores

\* The session with the prompts answered: a count of at least 2 is eventually
\* typed, every commitment is eventually typed, a player who can open the
\* stored commitment eventually does; main() itself goes on to score and print.
Fairness ==
    /\ WF_vars(CollectCountLive /\ players_count' >= 2)
    /\ WF_vars(CollectCommit)
    /\ WF_vars(RevealAttempt /\ reveal_ok')
    /\ WF_vars(Score)
    /\ WF_vars(PrintScores)

SpecLive == Init /\ [][NextLive]_vars /\ Fairness

-----------------------------------------------------------------------------
(* SpecScore: update_scores called round after round on one score table *)

RECURSIVE Insert0All(_, _)
Insert0All(details, scores) ==
    IF details = <<>> THEN scores
    ELSE Insert0All(Tail(details), Insert0(scores, Head(details).name))

\* The ways n players can be named, up to renaming: each player bears the name
\* of an earlier player or the first name of ScoreNames not used yet.
NameLists(n) ==
    {names \in [1..n -> {ScoreNames[j] : j \in 1..n}] :
        \A k \in 1..n :
            \E j \in 1..(Cardinality({names[l] : l \in 1..(k - 1)}) + 1) :
                names[k] = ScoreNames[j]}

\* Player lists of up to MaxPlayers entries, no choice made yet; the table as
\* main() builds it.
InitScore ==
    /\ pc = "choose"
    /\ \E n \in 0..MaxPlayers :
         /\ players_count = n
         /\ \E names \in NameLists(n) :
              players_details = [k \in 1..n |-> Entry(names[k], UnopenedHash, "Empty")]
    /\ players_scores = Insert0All(players_details, EmptyMap)
    /\ i = 1
    /\ choice = NoString
    /\ salt = NoString
    /\ reveal_ok = FALSE
    /\ accepted = EmptyMap
    /\ score_calls = 0
    /\ scores_before = EmptyMap
    /\ output = {}
    /\ test_input = <<NoString, NoString>>
    /\ hash = UnopenedHash

\* The players' choices of the round (any Choice value: update_scores takes
\* whatever the list holds).
Choose ==
    /\ pc = "choose"
    /\ \E choices \in [1..Len(players_details) -> Choice] :
         players_details' =
             [k \in 1..Len(players_details) |->
                 [players_details[k] EXCEPT !.choice = choices[k]]]
    /\ pc' = "call"
    /\ UNCHANGED <<players_count, players_scores, i, choice, salt, reveal_ok,
                   accepted, score_calls, scores_before, output, test_input, hash>>

\* update_scores(&players_details, &mut players_scores)
ScoreCall ==
    /\ pc = "call"
    /\ scores_before' = players_scores
    /\ players_scores' = update_scores(players_details, players_scores)
    /\ score_calls' = score_calls + 1
    /\ pc' = "called"
    /\ UNCHANGED <<players_count, players_details, i, choice, salt, reveal_ok,
                   accepted, output, test_input, hash>>

\* The same players and the same table go into another round, every choice
\* back to Empty as when an entry is created; rounds stop at MaxRounds calls or
\* when a score has reached MaxScore.
NewRound ==
    /\ pc = "called"
    /\ score_calls < MaxRounds
    /\ \A n \in DOMAIN players_scores : players_scores[n] < MaxScore
    /\ players_details' =
           [k \in 1..Len(players_details) |->
               [players_details[k] EXCEPT !.choice = "Empty"]]
    /\ scores_before' = EmptyMap
    /\ pc' = "choose"
    /\ UNCHANGED <<players_count, players_scores, i, choice, salt, reveal_ok,
                   accepted, score_calls, output, test_input, hash>>

NextScore ==
    \/ Choose
    \/ ScoreCall
    \/ NewRound

SpecScore == InitScore /\ [][NextScore]_vars

-----------------------------------------------------------------------------
(* SpecHash: tests::test_reveal_blake3_256 on bounded inputs *)

InitHash ==
    /\ pc = "test"
    /\ test_input \in ChoiceStrings \X SaltStrings
    /\ hash = UnopenedHash
    /\ players_count = 0
    /\ players_details = <<>>
    /\ players_scores = EmptyMap
    /\ i = 1
    /\ choice = NoString
    /\ salt = NoString
    /\ reveal_ok = FALSE
    /\ accepted = EmptyMap
    /\ score_calls = 0
    /\ scores_before = EmptyMap
    /\ output = {}

\* let hash = commit_faster(choice, salt);
TestCommit ==
    /\ pc = "test"
    /\ hash' = commit_faster(test_input[1], test_input[2])
    /\ pc' = "committed"
    /\ UNCHANGED <<players_count, players_details, players_scores, i, choice, salt,
                   reveal_ok, accepted, score_calls, scores_before, output, test_input>>

\* reveal_faster(hash, choice2, salt2)
TestReveal ==
    /\ pc = "committed"
    /\ \E ch \in ChoiceStrings, sl \in SaltStrings :
         /\ choice' = ch
         /\ salt' = sl
         /\ reveal_ok' = reveal_faster(hash, ch, sl)
    /\ pc' = "revealed"
    /\ UNCHANGED <<players_count, players_details, players_scores, i, accepted,
                   score_calls, scores_before, output, test_input, hash>>

NextHash ==
    \/ TestCommit
    \/ TestReveal

SpecHash == InitHash /\ [][NextHash]_vars

-----------------------------------------------------------------------------
(* SpecBoth: the session and the scorer harness together *)

InitBoth == Init \/ InitScore

NextBoth == Next \/ NextScore

SpecBoth == InitBoth /\ [][NextBoth]_vars

-----------------------------------------------------------------------------
(* Vocabulary of the properties *)

ValidMoves == {"Rock", "Paper", "Scissors"}

\* The cyclic rule of the game: Rock beats Scissors, Scissors beats Paper,
\* Paper beats Rock.
Beats(a, b) ==
    \/ a = "Rock" /\ b = "Scissors"
    \/ a = "Scissors" /\ b = "Paper"
    \/ a = "Paper" /\ b = "Rock"

Indices == 1..Len(players_details)

\* Pairings that the players named n win under the cyclic rule.
WinsOf(n) ==
    Cardinality({p \in Indices \X Indices :
        /\ p[1] # p[2]
        /\ players_details[p[1]].name = n
        /\ Beats(players_details[p[1]].choice, players_details[p[2]].choice)})

\* Pairings of a player named n with a player holding another choice.
UnequalPairingsOf(n) ==
    Cardinality({p \in Indices \X Indices :
        /\ p[1] # p[2]
        /\ players_details[p[1]].name = n
        /\ players_details[p[1]].choice # players_details[p[2]].choice})

\* update_scores has just returned: players_details is the list it was given,
\* scores_before the table it was given and players_scores the table it left.
AfterCall == pc \in {"called", "print", "done"}

ChoicesAre(cs) ==
    /\ Len(players_details) = Len(cs)
    /\ \A k \in Indices : players_details[k].choice = cs[k]

DistinctNames ==
    \A k, l \in Indices : k # l => players_details[k].name # players_details[l].name

ScoreBefore(n) == IF n \in DOMAIN scores_before THEN scores_before[n] ELSE 0

-----------------------------------------------------------------------------
(* Properties *)

\* C1: when all choices are Rock, Paper or Scissors, update_scores adds to every
\* player one point per pairing the player wins under the cyclic rule and nothing
\* else, whichever of the two players of a pairing comes first in the list.
C1_CyclicRuleScoring ==
    (AfterCall /\ \A k \in Indices : players_details[k].choice \in ValidMoves)
        => \A n \in NameSet(players_details) :
              /\ n \in DOMAIN players_scores
              /\ players_scores[n] = ScoreBefore(n) + WinsOf(n)

\* C2: a reveal with a (choice, salt) other than the committed pair is rejected
\* (hash collision-free on the byte stream).
C2_VerificationSoundness ==
    (pc = "revealed" /\ <<choice, salt>> # test_input) => ~reveal_ok

\* C3: every reveal that was accepted recorded Rock, Paper or Scissors, and when
\* update_scores has been called no player's choice is Empty.
C3_ScoredChoicesValid ==
    /\ \A k \in DOMAIN accepted : players_details[k].choice \in ValidMoves
    /\ score_calls > 0 => \A k \in Indices : players_details[k].choice \in ValidMoves

\* C4: reveal_faster returns true exactly when commit_faster of the revealed
\* choice and salt equals the commitment; revealing the committed pair succeeds.
C4_RevealIffCommitEqual ==
    pc = "revealed" =>
        /\ reveal_ok <=> (commit_faster(choice, salt) = hash)
        /\ <<choice, salt>> = test_input => reveal_ok

C4_Witness ==
    /\ pc = "revealed"
    /\ <<choice, salt>> = test_input
    /\ reveal_ok

\* C5: a reveal attempt that does not match the stored commitment leaves the
\* player list and the score table as they were and the same player on turn with
\* an Empty choice; after the commit phase no step changes a stored commitment
\* or name.
C5_FailedRevealFrame ==
    [][/\ (/\ pc = "reveal"
           /\ pc' # "panicked"
           /\ commit_faster(choice', salt') # players_details[i].hash)
            => /\ players_details' = players_details
               /\ players_details[i].choice = "Empty"
               /\ players_scores' = players_scores
               /\ i' = i
               /\ pc' = "reveal"
       /\ pc \notin {"count", "commit"}
            => /\ Len(players_details') = Len(players_details)
               /\ \A k \in Indices :
                    /\ players_details'[k].hash = players_details[k].hash
                    /\ players_details'[k].name = players_details[k].name]_vars

\* A second player's reveal has just been rejected, the first one's accepted.
C5_Witness ==
    /\ pc = "reveal"
    /\ i = 2
    /\ choice # NoString
    /\ ~reveal_ok
    /\ players_details[1].choice # "Empty"
    /\ players_details[2].choice = "Empty"

\* C6 (state part): reveals are accepted only once players_count commitments are
\* stored, update_scores has run once exactly when the report is reached, and by
\* then every player has an accepted reveal that opens the stored commitment.
C6_PhaseState ==
    /\ (accepted # EmptyMap \/ pc \in {"reveal", "score", "print", "done"})
          => /\ players_count >= 2
             /\ Len(players_details) = players_count
    /\ score_calls = IF pc \in {"print", "done"} THEN 1 ELSE 0
    /\ score_calls > 0
          => \A k \in Indices :
                /\ k \in DOMAIN accepted
                /\ commit_faster(accepted[k][1], accepted[k][2]) = players_details[k].hash

\* C6: the phases run in strict order: commit-all, then reveal-all, then one
\* update_scores call; no commitment is added once the reveal phase has started.
C6_PhaseOrder ==
    [][/\ C6_PhaseState'
       /\ pc \notin {"count", "commit"} => Len(players_details') = Len(players_details)
       /\ DOMAIN accepted \subseteq DOMAIN accepted'
       /\ score_calls' >= score_calls]_vars

C6_Witness ==
    /\ pc = "done"
    /\ score_calls = 1
    /\ Len(players_details) = 3
    /\ DOMAIN accepted = 1..3

\* C7: for choices Rock, Rock, Scissors in list order update_scores adds one
\* point for the first player, one for the second and none for the third.
C7_RockRockScissors ==
    (AfterCall /\ ChoicesAre(<<"Rock", "Rock", "Scissors">>))
        => /\ DOMAIN players_scores = NameSet(players_details)
           /\ \A n \in DOMAIN players_scores :
                players_scores[n] =
                    ScoreBefore(n)
                      + Cardinality({k \in {1, 2} : players_details[k].name = n})

C7_Witness ==
    /\ pc = "called"
    /\ ChoicesAre(<<"Rock", "Rock", "Scissors">>)
    /\ DistinctNames
    /\ score_calls = 2
    /\ players_scores[players_details[1].name] = scores_before[players_details[1].name] + 1
    /\ players_scores[players_details[2].name] = scores_before[players_details[2].name] + 1
    /\ players_scores[players_details[3].name] = scores_before[players_details[3].name]
    /\ scores_before[players_details[3].name] > 0

\* C8: when all players hold the same choice update_scores leaves the table
\* unchanged; in general a pairing of equal choices gives no point, so a name
\* gains at most one point per pairing of its players with a different choice.
C8_TiesScoreNothing ==
    AfterCall =>
        /\ (\A k, l \in Indices : players_details[k].choice = players_details[l].choice)
              => players_scores = scores_before
        /\ \A n \in DOMAIN players_scores :
              players_scores[n] <= ScoreBefore(n) + UnequalPairingsOf(n)

C8_Witness ==
    /\ pc = "called"
    /\ ChoicesAre(<<"Paper", "Paper", "Paper">>)
    /\ score_calls = 2
    /\ players_scores = scores_before
    /\ \E n \in DOMAIN players_scores : players_scores[n] > 0

\* C9: from the end of the commit phase on, the keys of the score table are
\* exactly the names in the player list.
C9_KeysAreNames ==
    pc \in {"reveal", "score", "print", "done"}
        => DOMAIN players_scores = NameSet(players_details)

C9_Witness ==
    /\ pc = "done"
    /\ Len(players_details) = 3
    /\ \E n \in DOMAIN players_scores : players_scores[n] > 0
    /\ DOMAIN players_scores = {"alice", "bob"}

\* Points one update_scores call yields for name n on a table of zeros.
RoundDelta(details, n) ==
    LET fresh == update_scores(details, [m \in NameSet(details) |-> 0])
    IN  IF n \in DOMAIN fresh THEN fresh[n] ELSE 0

\* C10: no step lowers, resets or removes a score, scores are never negative,
\* and each update_scores call adds the round's points to the values the table
\* held before the call.
C10_ScoresAccumulate ==
    [][/\ \A n \in DOMAIN players_scores :
            /\ n \in DOMAIN players_scores'
            /\ players_scores'[n] >= players_scores[n]
       /\ \A n \in DOMAIN players_scores' : players_scores'[n] >= 0
       /\ score_calls' = score_calls + 1
            => \A n \in DOMAIN players_scores' :
                  players_scores'[n] =
                      (IF n \in DOMAIN players_scores THEN players_scores[n] ELSE 0)
                        + RoundDelta(players_details, n)]_vars

\* A second round has added points to a score that the first round had raised.
C10_Witness ==
    /\ pc = "called"
    /\ score_calls = 2
    /\ \E n \in DOMAIN players_scores :
          /\ scores_before[n] > 0
          /\ players_scores[n] > scores_before[n]

\* C11: a name whose players all hold Empty gains no point from a call of
\* update_scores: Empty loses to Rock, Paper and Scissors in either list order
\* (and ties with Empty).
C11_EmptyGainsNothing ==
    AfterCall =>
        \A n \in NameSet(players_details) :
            (\A k \in Indices :
                players_details[k].name = n => players_details[k].choice = "Empty")
                => /\ n \in DOMAIN players_scores
                   /\ players_scores[n] = ScoreBefore(n)

RECURSIVE SumOver(_, _)
SumOver(f, S) ==
    IF S = {} THEN 0
    ELSE LET x == CHOOSE y \in S : TRUE
         IN  f[x] + SumOver(f, S \ {x})

\* Unordered pairs of distinct players whose choices differ.
UnequalPairs ==
    {p \in Indices \X Indices :
        /\ p[1] < p[2]
        /\ players_details[p[1]].choice # players_details[p[2]].choice}

\* C12: one call of update_scores adds in total one point per unordered pair of
\* distinct players whose choices differ: every such pair is compared once, no
\* player with itself, and a pair gives at most one point.
C12_EachPairOnce ==
    AfterCall =>
        /\ DOMAIN scores_before \subseteq DOMAIN players_scores
        /\ SumOver([n \in DOMAIN players_scores |-> players_scores[n] - ScoreBefore(n)],
                   DOMAIN players_scores)
              = Cardinality(UnequalPairs)

\* Three players of three names, two unequal pairs and one tie, in a second round.
C12_Witness ==
    /\ pc = "called"
    /\ score_calls = 2
    /\ Len(players_details) = 3
    /\ DistinctNames
    /\ Cardinality(UnequalPairs) = 2
    /\ \E n \in DOMAIN scores_before : scores_before[n] > 0

\* C13: two accepted reveals of the same commitment record the same Choice.
C13_CommitmentBindsChoice ==
    \A k, l \in DOMAIN accepted :
        players_details[k].hash = players_details[l].hash
            => players_details[k].choice = players_details[l].choice

\* C14: after the commit phase no two players bear the same name and the score
\* table has as many entries as there are players.
C14_UniqueNames ==
    pc \in {"reveal", "score", "print", "done"}
        => /\ DistinctNames
           /\ Cardinality(DOMAIN players_scores) = Len(players_details)

\* C16: a count below 2 collects no player and is asked again; the reveal phase
\* and update_scores are reached only with at least two players, as many as the
\* accepted count.
C16_AtLeastTwoPlayers ==
    /\ players_count < 2 => (players_details = <<>> /\ pc \in {"count", "panicked"})
    /\ Len(players_details) <= players_count
    /\ (pc \in {"reveal", "score", "print", "done"} \/ score_calls > 0)
          => /\ players_count >= 2
             /\ Len(players_details) = players_count

\* The count 1 has just been rejected: still at the count prompt, nobody collected.
C16_Witness ==
    /\ pc = "count"
    /\ players_count = 1
    /\ players_details = <<>>
    /\ players_scores = EmptyMap

\* Player i is on turn and no (choice, salt) opens the stored commitment.
CannotOpen ==
    /\ pc = "reveal"
    /\ \A ch \in ChoiceStrings, sl \in SaltStrings :
          commit_faster(ch, sl) # players_details[i].hash

C15_Steps ==
    /\ pc' = "done" => (pc \in {"print", "done"} /\ score_calls' = 1
                        /\ output' = {<<n, players_scores[n]>> : n \in DOMAIN players_scores})
    /\ pc' = "panicked" => pc \in {"count", "commit", "reveal", "panicked"}
    /\ (pc = "reveal" /\ ~reveal_ok' /\ pc' # "panicked") => pc' = "reveal"
    /\ (pc = "count" /\ players_count' < 2 /\ pc' # "panicked") => pc' = "count"

====
